---- MODULE Spec2Model ----
(***************************************************************************)
(* ISBN scanner: the validators and the six-strategy extractor of          *)
(* js/isbn-utils.js.  Strings are sequences of one-character strings.      *)
(***************************************************************************)
EXTENDS Integers, Sequences, FiniteSets, TLC

\* ------------------------------------------------------------------------
\* Characters and character classes
\* ------------------------------------------------------------------------

\* \d of a JavaScript regular expression (ASCII digits only).
Digits == {"0", "1", "2", "3", "4", "5", "6", "7", "8", "9"}

\* \s of a JavaScript regular expression, restricted to the characters the
\* model's inputs use.
WS == {" ", "\n"}

LowerCase == <<"a", "b", "c", "d", "e", "f", "g", "h", "i", "j", "k", "l", "m",
               "n", "o", "p", "q", "r", "s", "t", "u", "v", "w", "x", "y", "z">>

UpperCase == <<"A", "B", "C", "D", "E", "F", "G", "H", "I", "J", "K", "L", "M",
               "N", "O", "P", "Q", "R", "S", "T", "U", "V", "W", "X", "Y", "Z">>

\* Every character a model string may hold.
Chars == Digits \cup WS \cup {LowerCase[i] : i \in 1..26}
           \cup {UpperCase[i] : i \in 1..26} \cup {"-", ":", ".", "=", "|", ","}

\* String.prototype.toUpperCase on each character.
UpperMap ==
    [c \in Chars |-> IF \E i \in 1..26 : LowerCase[i] = c
                     THEN UpperCase[CHOOSE i \in 1..26 : LowerCase[i] = c]
                     ELSE c]

UpperChar(c) == UpperMap[c]

\* String.prototype.toUpperCase.
toUpperCase(s) == [i \in 1..Len(s) |-> UpperChar(s[i])]

\* s.replace(/[cls]/g, to) where to is a single character.
ReplaceClass(s, cls, to) == [i \in 1..Len(s) |-> IF s[i] \in cls THEN to ELSE s[i]]

\* s.replace(/[cls]/g, '').
RemoveClass(s, cls) ==
    LET Kept(c) == c \notin cls
    IN  SelectSeq(s, Kept)

\* s.replace(/[^cls]/g, to) where to is a single character.
ReplaceOutside(s, cls, to) == [i \in 1..Len(s) |-> IF s[i] \in cls THEN s[i] ELSE to]

\* s.replace(/[^cls]/g, '').
KeepClass(s, cls) ==
    LET Kept(c) == c \in cls
    IN  SelectSeq(s, Kept)

\* s.substring(i, j) for 0 <= i <= j (0-based, end exclusive, clamped).
substring(s, i, j) ==
    SubSeq(s, i + 1, IF j > Len(s) THEN Len(s) ELSE j)

\* s.startsWith(p).
startsWith(s, p) == Len(s) >= Len(p) /\ SubSeq(s, 1, Len(p)) = p

\* ------------------------------------------------------------------------
\* Validators
\* ------------------------------------------------------------------------

\* The NaN of JavaScript arithmetic: any sum it enters stays NaN, and
\* NaN % n === 0 is false.  Sums of digits are never negative.
NaN == -1

DigitValue(c) ==
    CASE c = "0" -> 0 [] c = "1" -> 1 [] c = "2" -> 2 [] c = "3" -> 3
      [] c = "4" -> 4 [] c = "5" -> 5 [] c = "6" -> 6 [] c = "7" -> 7
      [] c = "8" -> 8 [] c = "9" -> 9

\* parseInt(s[i]) for a 0-based index i: the digit's value, NaN for any
\* other character and for an index past the end (undefined).
parseIntAt(s, i) ==
    IF i + 1 <= Len(s) /\ s[i + 1] \in Digits THEN DigitValue(s[i + 1]) ELSE NaN

Plus(a, b) == IF a = NaN \/ b = NaN THEN NaN ELSE a + b

Times(a, b) == IF a = NaN \/ b = NaN THEN NaN ELSE a * b

\* (a % n === 0)
DivisibleBy(a, n) == a # NaN /\ a % n = 0

RECURSIVE Sum13(_, _, _)

\* Mutant of Sum13: weight 5 in place of 3.
RECURSIVE Sum13WeightFive(_, _, _)
Sum13WeightFive(isbn, i, sum) ==
    IF i < 13
    THEN Sum13WeightFive(isbn, i + 1,
               Plus(sum, IF i % 2 = 0 THEN parseIntAt(isbn, i)
                                      ELSE Times(parseIntAt(isbn, i), 5)))
    ELSE sum

\* Mutant of Sum13: the weights 1 and 3 on the wrong parity.
RECURSIVE Sum13SwappedWeights(_, _, _)
Sum13SwappedWeights(isbn, i, sum) ==
    IF i < 13
    THEN Sum13SwappedWeights(isbn, i + 1,
               Plus(sum, IF i % 2 = 1 THEN parseIntAt(isbn, i)
                                      ELSE Times(parseIntAt(isbn, i), 3)))
    ELSE sum

\* The loop of validateISBN13 from index i on, with the running sum.
Sum13(isbn, i, sum) ==
    IF i < 13
    THEN Sum13(isbn, i + 1,
               Plus(sum, IF i % 2 = 0 THEN parseIntAt(isbn, i)
                                      ELSE Times(parseIntAt(isbn, i), 3)))
    ELSE sum

validateISBN13(isbn) == DivisibleBy(Sum13(isbn, 0, 0), 10)

\* /^\d{9}[\dX]$/.test(s)
IsISBN10Format(s) ==
    /\ Len(s) = 10
    /\ \A i \in 1..9 : s[i] \in Digits
    /\ s[10] \in Digits \cup {"X"}

RECURSIVE Sum10(_, _, _)

\* Mutant of Sum10: the weights run 9..1 instead of 10..2.
RECURSIVE Sum10WeightsFromNine(_, _, _)
Sum10WeightsFromNine(cleaned, i, sum) ==
    IF i < 9
    THEN Sum10WeightsFromNine(cleaned, i + 1,
                              Plus(sum, Times(parseIntAt(cleaned, i), 9 - i)))
    ELSE sum

\* The loop of isValidISBN10 over the first nine characters.
Sum10(cleaned, i, sum) ==
    IF i < 9
    THEN Sum10(cleaned, i + 1, Plus(sum, Times(parseIntAt(cleaned, i), 10 - i)))
    ELSE sum

\* Mutant of isValidISBN10: the cleaned string is not upper-cased.
isValidISBN10CaseSensitive(code) ==
    LET cleaned == RemoveClass(code, WS \cup {"-"})
    IN  IF Len(cleaned) # 10 THEN FALSE
        ELSE IF ~IsISBN10Format(cleaned) THEN FALSE
        ELSE LET lastChar == cleaned[10]
                 sum == Plus(Sum10(cleaned, 0, 0),
                             IF lastChar = "X" THEN 10 ELSE parseIntAt(cleaned, 9))
             IN  DivisibleBy(sum, 11)

isValidISBN10(code) ==
    LET cleaned == toUpperCase(RemoveClass(code, WS \cup {"-"}))
    IN  IF Len(cleaned) # 10 THEN FALSE
        ELSE IF ~IsISBN10Format(cleaned) THEN FALSE
        ELSE LET lastChar == cleaned[10]
                 sum == Plus(Sum10(cleaned, 0, 0),
                             IF lastChar = "X" THEN 10 ELSE parseIntAt(cleaned, 9))
             IN  DivisibleBy(sum, 11)

\* Mutant of isValidISBN: the 978/979 prefix test is missing.
isValidISBNAnyPrefix(code) ==
    LET cleaned == RemoveClass(code, WS \cup {"-"})
    IN  IF Len(cleaned) = 13 /\ \A i \in 1..13 : cleaned[i] \in Digits
        THEN validateISBN13(cleaned)
        ELSE IF Len(cleaned) = 10 THEN isValidISBN10(cleaned)
        ELSE FALSE

\* Mutant of isValidISBN: only hyphens are removed before the tests.
isValidISBNKeepsSpaces(code) ==
    LET cleaned == RemoveClass(code, {"-"})
    IN  IF /\ Len(cleaned) = 13
           /\ \A i \in 1..13 : cleaned[i] \in Digits
           /\ (startsWith(cleaned, <<"9", "7", "8">>) \/ startsWith(cleaned, <<"9", "7", "9">>))
        THEN validateISBN13(cleaned)
        ELSE IF Len(cleaned) = 10 THEN isValidISBN10(cleaned)
        ELSE FALSE

isValidISBN(code) ==
    LET cleaned == RemoveClass(code, WS \cup {"-"})
    IN  IF /\ Len(cleaned) = 13
           /\ \A i \in 1..13 : cleaned[i] \in Digits
           /\ (startsWith(cleaned, <<"9", "7", "8">>) \/ startsWith(cleaned, <<"9", "7", "9">>))
        THEN validateISBN13(cleaned)
        ELSE IF Len(cleaned) = 10 THEN isValidISBN10(cleaned)
        ELSE FALSE

\* ------------------------------------------------------------------------
\* Regular expressions.  A pattern is a sequence of items matched left to
\* right with JavaScript's backtracking order (greedy quantifiers retried
\* from the longest repetition down, alternatives tried left to right).
\*   k = "cls": a character class repeated min..max times (greedy);
\*   k = "opt": an optional literal, (?:lit)?;
\*   k = "bol": (?:^|[cls]);   k = "eol": (?:[cls]|$).
\* neg marks a negated class [^...], cap an item inside a capture group.
\* ------------------------------------------------------------------------

\* The upper limit of the * quantifier.
Unbounded == 1000000

\* ucls is the class canonicalized for matching under the i flag.
Item(k, cls, neg, min, max, cap, lit) ==
    [k |-> k, cls |-> cls, ucls |-> {UpperChar(x) : x \in cls}, neg |-> neg,
     min |-> min, max |-> max, cap |-> cap, lit |-> lit]

\* One literal character, outside and inside a capture group.
Lit(c) == Item("cls", {c}, FALSE, 1, 1, FALSE, <<>>)

CapLit(c) == Item("cls", {c}, FALSE, 1, 1, TRUE, <<>>)

\* [cls]{min,max} outside and inside a capture group.
Rep(cls, min, max) == Item("cls", cls, FALSE, min, max, FALSE, <<>>)

CapRep(cls, min, max) == Item("cls", cls, FALSE, min, max, TRUE, <<>>)

\* (?:lit)?
Opt(lit) == Item("opt", {}, FALSE, 0, 1, FALSE, lit)

\* (?:^|[^cls]) and (?:[^cls]|$)
BolOrNot(cls) == Item("bol", cls, TRUE, 0, 1, FALSE, <<>>)

EolOrNot(cls) == Item("eol", cls, TRUE, 0, 1, FALSE, <<>>)

\* Does character c match the item's class?  Under the i flag both sides are
\* canonicalized (upper-cased) before the comparison, then negation applies.
ClassMatches(it, ic, c) ==
    LET found == IF ic THEN UpperChar(c) \in it.ucls ELSE c \in it.cls
    IN  found # it.neg

\* The number of consecutive characters from pos that match the item's
\* class, at most limit.
RECURSIVE RunLen(_, _, _, _, _)
RunLen(T, pos, it, ic, limit) ==
    IF limit = 0 \/ pos > Len(T) \/ ~ClassMatches(it, ic, T[pos]) THEN 0
    ELSE 1 + RunLen(T, pos + 1, it, ic, limit - 1)

\* Is lit at position pos of T?
LitAt(T, pos, lit, ic) ==
    /\ pos + Len(lit) - 1 <= Len(T)
    /\ \A j \in 1..Len(lit) :
         IF ic THEN UpperChar(T[pos + j - 1]) = UpperChar(lit[j])
               ELSE T[pos + j - 1] = lit[j]

\* A match: where it starts and ends (end exclusive), the joined capture
\* groups and the position of the first captured character (0: none yet).
NoMatch == [ok |-> FALSE, start |-> 0, end |-> 0, cap |-> <<>>, capAt |-> 0]

RECURSIVE MatchFrom(_, _, _, _, _, _, _)
RECURSIVE TryCount(_, _, _, _, _, _, _, _)

\* Match items i.. of pat at position pos; cap holds the captured text so
\* far (the capture groups joined in order).
MatchFrom(pat, ic, T, i, pos, cap, capAt) ==
    IF i > Len(pat)
    THEN [ok |-> TRUE, start |-> 0, end |-> pos, cap |-> cap, capAt |-> capAt]
    ELSE LET it == pat[i]
         IN  CASE it.k = "cls" ->
                    TryCount(pat, ic, T, i, pos, cap, capAt, RunLen(T, pos, it, ic, it.max))
               [] it.k = "opt" ->
                    LET with == IF LitAt(T, pos, it.lit, ic)
                                THEN MatchFrom(pat, ic, T, i + 1, pos + Len(it.lit), cap, capAt)
                                ELSE NoMatch
                    IN  IF with.ok THEN with ELSE MatchFrom(pat, ic, T, i + 1, pos, cap, capAt)
               [] it.k = "bol" ->
                    LET atStart == IF pos = 1 THEN MatchFrom(pat, ic, T, i + 1, pos, cap, capAt)
                                   ELSE NoMatch
                    IN  IF atStart.ok THEN atStart
                        ELSE IF pos <= Len(T) /\ ClassMatches(it, ic, T[pos])
                        THEN MatchFrom(pat, ic, T, i + 1, pos + 1, cap, capAt)
                        ELSE NoMatch
               [] it.k = "eol" ->
                    LET one == IF pos <= Len(T) /\ ClassMatches(it, ic, T[pos])
                               THEN MatchFrom(pat, ic, T, i + 1, pos + 1, cap, capAt)
                               ELSE NoMatch
                    IN  IF one.ok THEN one
                        ELSE IF pos = Len(T) + 1 THEN MatchFrom(pat, ic, T, i + 1, pos, cap, capAt)
                        ELSE NoMatch

\* Item i of pat repeated n times, then n - 1, ... down to its minimum.
TryCount(pat, ic, T, i, pos, cap, capAt, n) ==
    IF n < pat[i].min THEN NoMatch
    ELSE LET r == MatchFrom(pat, ic, T, i + 1, pos + n,
                            IF pat[i].cap THEN cap \o SubSeq(T, pos, pos + n - 1) ELSE cap,
                            IF pat[i].cap /\ capAt = 0 /\ n > 0 THEN pos ELSE capAt)
         IN  IF r.ok THEN r ELSE TryCount(pat, ic, T, i, pos, cap, capAt, n - 1)

\* The positions of T at which the pattern matches.
MatchStarts(pat, ic, T) ==
    {p \in 1..(Len(T) + 1) : MatchFrom(pat, ic, T, 1, p, <<>>, 0).ok}

\* RegExp.prototype.exec from lastIndex (1-based here): the match at the
\* leftmost position, not before lastIndex, where the pattern matches
\* (starts: the positions where it does).
Exec(pat, ic, T, lastIndex, starts) ==
    LET later == {p \in starts : p >= lastIndex}
    IN  IF later = {} THEN NoMatch
        ELSE LET first == CHOOSE p \in later : \A q \in later : p <= q
             IN  [MatchFrom(pat, ic, T, 1, first, <<>>, 0) EXCEPT !.start = first]

\* String.prototype.matchAll with a g-flagged pattern: the successive matches
\* in order, each with its joined capture groups (match.slice(1).join('')).
RECURSIVE MatchAllFrom(_, _, _, _, _)
MatchAllFrom(pat, ic, T, lastIndex, starts) ==
    LET m == Exec(pat, ic, T, lastIndex, starts)
    IN  IF ~m.ok THEN <<>>
        ELSE <<m>> \o MatchAllFrom(pat, ic, T,
                                   IF m.end = m.start THEN m.end + 1 ELSE m.end, starts)

matchAll(T, pat, ic) == MatchAllFrom(pat, ic, T, 1, MatchStarts(pat, ic, T))

\* String.prototype.match with a g-flagged pattern: the list of matches, or
\* null when there is none.
match(T, pat, ic) ==
    LET ms == matchAll(T, pat, ic)
    IN  [isNull |-> ms = <<>>, list |-> ms]

\* Mutant of OrEmpty: the "|| []" guard is missing.
OrEmptyMissing(r) == r

\* r || [] for the value r of String.prototype.match.
OrEmpty(r) == [isNull |-> FALSE, list |-> r.list]


\* ------------------------------------------------------------------------
\* extractISBN
\* ------------------------------------------------------------------------

\* The value null (a result is otherwise a sequence of characters).
Null == <<"null">>

\* The outcome of a call that ends with an uncaught TypeError (iterating
\* over, or calling a method of, null).
Threw == <<"TypeError">>

\* Mutant of normalizedText: B is not substituted.
normalizedTextKeepsB(text) ==
    LET u  == toUpperCase(text)
        r1 == ReplaceClass(u, {"I", "l", "|"}, "1")
        r2 == ReplaceClass(r1, {"O", "o"}, "0")
        r3 == ReplaceClass(r2, {"S", "s"}, "5")
        r5 == ReplaceClass(r3, {"Z", "z"}, "2")
    IN  ReplaceClass(r5, {"\n"}, " ")

normalizedText(text) ==
    LET u  == toUpperCase(text)
        r1 == ReplaceClass(u, {"I", "l", "|"}, "1")
        r2 == ReplaceClass(r1, {"O", "o"}, "0")
        r3 == ReplaceClass(r2, {"S", "s"}, "5")
        r4 == ReplaceClass(r3, {"B", "b"}, "8")
        r5 == ReplaceClass(r4, {"Z", "z"}, "2")
    IN  ReplaceClass(r5, {"\n"}, " ")

\* [-:\s]
LabelSep == {"-", ":"} \cup WS

\* [-\s.\d]
NumBody == {"-", "."} \cup WS \cup Digits

\* [-\s.]
GroupSep == {"-", "."} \cup WS

\* [\s\-\.oO]
NoiseSep == {"-", ".", "o", "O"} \cup WS

\* [\dX]
DigitOrX == Digits \cup {"X"}

\* The literal ISBN.
LitISBN == <<Lit("I"), Lit("S"), Lit("B"), Lit("N")>>

\* (97[89]) as a capture group.
Cap97x == <<CapLit("9"), CapLit("7"), CapRep({"8", "9"}, 1, 1)>>

\* Strategy 1 patterns (flags gi).
isbnLabelPatterns ==
    << LitISBN \o <<Rep(LabelSep, 0, Unbounded), Opt(<<"1", "3">>), Rep(LabelSep, 0, Unbounded)>>
         \o Cap97x \o <<CapRep(NumBody, 10, 17)>>,
       LitISBN \o <<Rep(LabelSep, 0, Unbounded), Opt(<<"1", "0">>), Rep(LabelSep, 0, Unbounded),
                    CapRep(Digits, 1, 1), CapRep(NumBody, 9, 12), CapRep(DigitOrX, 1, 1)>>,
       LitISBN \o <<Rep(WS, 0, Unbounded), Rep({":", "="}, 0, 1), Rep(WS, 0, Unbounded),
                    CapRep(Digits, 1, 1), CapRep(NumBody, 9, 16), CapRep(DigitOrX, 1, 1)>> >>

\* [\s\-\.oO]*(\d)
NoisyDigit == <<Rep(NoiseSep, 0, Unbounded), CapRep(Digits, 1, 1)>>

\* Mutant of isbn13Patterns: the fourth group of the first pattern has six
\* digits.
isbn13PatternsSixDigits ==
    << Cap97x \o <<Rep(GroupSep, 0, 1), CapRep(Digits, 1, 1), Rep(GroupSep, 0, 1),
                   CapRep(Digits, 2, 2), Rep(GroupSep, 0, 1), CapRep(Digits, 6, 6),
                   Rep(GroupSep, 0, 1), CapRep(Digits, 1, 1)>>,
       Cap97x \o <<CapRep(Digits, 10, 10)>>,
       <<BolOrNot(Digits)>> \o Cap97x \o <<CapRep(Digits, 10, 10), EolOrNot(Digits)>>,
       Cap97x \o NoisyDigit \o NoisyDigit \o NoisyDigit \o NoisyDigit \o NoisyDigit
              \o NoisyDigit \o NoisyDigit \o NoisyDigit \o NoisyDigit \o NoisyDigit >>

\* Strategy 2 patterns (flag g).
isbn13Patterns ==
    << Cap97x \o <<Rep(GroupSep, 0, 1), CapRep(Digits, 1, 1), Rep(GroupSep, 0, 1),
                   CapRep(Digits, 2, 2), Rep(GroupSep, 0, 1), CapRep(Digits, 5, 5),
                   Rep(GroupSep, 0, 1), CapRep(Digits, 1, 1)>>,
       Cap97x \o <<CapRep(Digits, 10, 10)>>,
       <<BolOrNot(Digits)>> \o Cap97x \o <<CapRep(Digits, 10, 10), EolOrNot(Digits)>>,
       Cap97x \o NoisyDigit \o NoisyDigit \o NoisyDigit \o NoisyDigit \o NoisyDigit
              \o NoisyDigit \o NoisyDigit \o NoisyDigit \o NoisyDigit \o NoisyDigit >>

\* Strategy 4 patterns (flags gi).
isbn10Patterns ==
    << <<CapRep(Digits, 1, 1), Rep(GroupSep, 0, 1), CapRep(Digits, 2, 2), Rep(GroupSep, 0, 1),
         CapRep(Digits, 5, 5), Rep(GroupSep, 0, 1), CapRep(DigitOrX, 1, 1)>>,
       <<CapRep(Digits, 9, 9), CapRep(DigitOrX, 1, 1)>>,
       <<BolOrNot(DigitOrX), CapRep(Digits, 9, 9), CapRep(DigitOrX, 1, 1), EolOrNot(DigitOrX)>> >>

\* /\d[\d\s]{11,20}\d/g (strategy 3) and /\d+/g (strategy 5); the whole match
\* is what the code uses.
DigitSequencePattern ==
    <<CapRep(Digits, 1, 1), CapRep(Digits \cup WS, 11, 20), CapRep(Digits, 1, 1)>>

NumberPattern == <<CapRep(Digits, 1, Unbounded)>>

\* candidate.startsWith('978') || candidate.startsWith('979')
HasBookPrefix(c) == startsWith(c, <<"9", "7", "8">>) \/ startsWith(c, <<"9", "7", "9">>)

\* Mutant of LabelCandidate: the captured group is returned as captured.
LabelCandidateRaw(m) ==
    LET candidate == RemoveClass(m.cap, WS \cup {"-", "."})
    IN  IF Len(candidate) = 13 /\ validateISBN13(candidate) THEN m.cap
        ELSE IF Len(candidate) = 10 /\ isValidISBN10(candidate) THEN m.cap
        ELSE Null

\* Mutant of LabelCandidate: the length of the candidate is not tested
\* before the ISBN-13 validation.
LabelCandidateAnyLength(m) ==
    LET candidate == RemoveClass(m.cap, WS \cup {"-", "."})
    IN  IF validateISBN13(candidate) THEN candidate
        ELSE IF Len(candidate) = 10 /\ isValidISBN10(candidate) THEN candidate
        ELSE Null

\* The body of the strategy-1 loop for one match: the returned candidate,
\* or Null when the loop goes on.
LabelCandidate(m) ==
    LET candidate == RemoveClass(m.cap, WS \cup {"-", "."})
    IN  IF Len(candidate) = 13 /\ validateISBN13(candidate) THEN candidate
        ELSE IF Len(candidate) = 10 /\ isValidISBN10(candidate) THEN candidate
        ELSE Null

\* The body of the strategy-2 loop for one match.
Isbn13Candidate(m) ==
    LET candidate == RemoveClass(m.cap, WS \cup {"-", "."})
        digits == KeepClass(candidate, Digits)
    IN  IF Len(digits) = 13 /\ validateISBN13(digits) THEN digits ELSE Null

\* The body of the strategy-4 loop for one match.
Isbn10Candidate(m) ==
    LET candidate == toUpperCase(RemoveClass(m.cap, WS \cup {"-", "."}))
        clean == KeepClass(candidate, DigitOrX)
    IN  IF Len(clean) = 10 /\ isValidISBN10(clean) THEN clean ELSE Null

\* for (let i = from; i <= digits.length - 13; i++): the first 13-character
\* window with a book prefix and a valid checksum.
RECURSIVE Window13(_, _)
Window13(digits, i) ==
    IF i > Len(digits) - 13 THEN Null
    ELSE LET candidate == substring(digits, i, i + 13)
         IN  IF HasBookPrefix(candidate) /\ validateISBN13(candidate) THEN candidate
             ELSE Window13(digits, i + 1)

\* The first 10-character window that is a valid ISBN-10.
RECURSIVE Window10(_, _)
Window10(digits, i) ==
    IF i > Len(digits) - 10 THEN Null
    ELSE LET candidate == substring(digits, i, i + 10)
         IN  IF isValidISBN10(candidate) THEN candidate ELSE Window10(digits, i + 1)

\* The body of the strategy-3 loop for one digit sequence.
SequenceCandidate(m) ==
    LET digits == RemoveClass(m.cap, WS)
    IN  IF Len(digits) >= 13 THEN Window13(digits, 0) ELSE Null

\* The inner loop "for (const match of matches)" with loop body Body(m):
\* the first non-Null value, kind selects the body.
LoopBody(kind, m) ==
    CASE kind = "label" -> LabelCandidate(m)
      [] kind = "isbn13" -> Isbn13Candidate(m)
      [] kind = "isbn10" -> Isbn10Candidate(m)
      [] kind = "sequence" -> SequenceCandidate(m)

RECURSIVE FirstOfMatches(_, _, _)
FirstOfMatches(kind, matches, j) ==
    IF j > Len(matches) THEN Null
    ELSE LET r == LoopBody(kind, matches[j])
         IN  IF r # Null THEN r ELSE FirstOfMatches(kind, matches, j + 1)

\* The result of one pattern of a strategy: its matches tried left to right.
PatternResult(kind, T, pat, ic) == FirstOfMatches(kind, matchAll(T, pat, ic), 1)

\* Mutant of PatternOrder: the patterns are visited last to first.
PatternOrderReversed(n) == [j \in 1..n |-> n + 1 - j]

\* The order in which the outer loop "for (const pattern of patterns)"
\* visits the patterns.
PatternOrder(n) == [j \in 1..n |-> j]

\* The outer loop over the patterns, from the j-th visited pattern on.
RECURSIVE FirstOfPatterns(_, _, _, _, _)
FirstOfPatterns(kind, T, patterns, ic, j) ==
    IF j > Len(patterns) THEN Null
    ELSE LET r == PatternResult(kind, T, patterns[PatternOrder(Len(patterns))[j]], ic)
         IN  IF r # Null THEN r ELSE FirstOfPatterns(kind, T, patterns, ic, j + 1)

\* Mutant of Strategy1: the label is searched in the normalized text.
Strategy1OnNormalized(text) ==
    FirstOfPatterns("label", normalizedText(text), isbnLabelPatterns, TRUE, 1)

Strategy1(text) == FirstOfPatterns("label", text, isbnLabelPatterns, TRUE, 1)

Strategy2(normalized) == FirstOfPatterns("isbn13", normalized, isbn13Patterns, FALSE, 1)

Strategy3(normalized) ==
    LET spaced == ReplaceOutside(normalized, Digits \cup WS, " ")
        allDigitSequences == OrEmpty(match(spaced, DigitSequencePattern, FALSE))
    IN  IF allDigitSequences.isNull THEN Threw
        ELSE FirstOfMatches("sequence", allDigitSequences.list, 1)

Strategy4(text) == FirstOfPatterns("isbn10", toUpperCase(text), isbn10Patterns, TRUE, 1)

\* allNumbers.join('')
RECURSIVE JoinMatches(_, _)
JoinMatches(matches, j) ==
    IF j > Len(matches) THEN <<>> ELSE matches[j].cap \o JoinMatches(matches, j + 1)

\* Mutant of Strategy5: the 10-character windows are tried first.
Strategy5TenFirst(text) ==
    LET allNumbers == OrEmpty(match(text, NumberPattern, FALSE))
        concatenated == JoinMatches(allNumbers.list, 1)
        r10 == Window10(concatenated, 0)
    IN  IF allNumbers.isNull THEN Threw
        ELSE IF r10 # Null THEN r10 ELSE Window13(concatenated, 0)

Strategy5(text) ==
    LET allNumbers == OrEmpty(match(text, NumberPattern, FALSE))
        concatenated == JoinMatches(allNumbers.list, 1)
        r13 == Window13(concatenated, 0)
    IN  IF allNumbers.isNull THEN Threw
        ELSE IF r13 # Null THEN r13 ELSE Window10(concatenated, 0)

\* Mutant of Strategy6: the scan needs more than 13 digits.
Strategy6NeedsMore(normalized) ==
    LET justDigits == KeepClass(normalized, Digits)
    IN  IF Len(justDigits) > 13 THEN Window13(justDigits, 0) ELSE Null

\* Mutant of Strategy6: with no validated window the digits themselves are
\* returned as a best guess.
Strategy6BestGuess(normalized) ==
    LET justDigits == KeepClass(normalized, Digits)
        r == IF Len(justDigits) >= 13 THEN Window13(justDigits, 0) ELSE Null
    IN  IF r # Null THEN r ELSE justDigits

Strategy6(normalized) ==
    LET justDigits == KeepClass(normalized, Digits)
    IN  IF Len(justDigits) >= 13 THEN Window13(justDigits, 0) ELSE Null

\* The number of strategies.
NumStrategies == 6

\* Mutant of StrategyResult: strategies 4 and 5 read the normalized text.
StrategyResultOnNormalized(k, text, normalized) ==
    CASE k = 1 -> Strategy1(text)
      [] k = 2 -> Strategy2(normalized)
      [] k = 3 -> Strategy3(normalized)
      [] k = 4 -> Strategy4(normalized)
      [] k = 5 -> Strategy5(normalized)
      [] k = 6 -> Strategy6(normalized)

\* What the k-th strategy returns given the argument and the normalized text
\* (Null: fall through to the next strategy).
StrategyResult(k, text, normalized) ==
    CASE k = 1 -> Strategy1(text)
      [] k = 2 -> Strategy2(normalized)
      [] k = 3 -> Strategy3(normalized)
      [] k = 4 -> Strategy4(text)
      [] k = 5 -> Strategy5(text)
      [] k = 6 -> Strategy6(normalized)

\* extractISBN as a function of its argument: the strategies in order, each
\* returning from the function as soon as it has a validated candidate.
RECURSIVE ExtractFrom(_, _)
ExtractFrom(text, k) ==
    IF k > NumStrategies THEN Null
    ELSE LET r == StrategyResult(k, text, normalizedText(text))
         IN  IF r # Null THEN r ELSE ExtractFrom(text, k + 1)

extractISBN(text) == ExtractFrom(text, 1)


\* ------------------------------------------------------------------------
\* Inputs
\* ------------------------------------------------------------------------

\* Lines an OCR pass may recognize; the text handed to extractISBN is up to
\* MaxLines of them joined by newlines.
LineLabelled13 ==
    <<"I", "S", "B", "N", ":", " ", "9", "7", "8", "0", "1", "3", "4", "6", "8", "5", "9", "9",
      "1">>

LineDecoy13 == <<"9", "7", "8", "1", "2", "3", "4", "5", "6", "7", "8", "9", "7">>

LineLabelledEAN ==
    <<"I", "S", "B", "N", " ", "1", "2", "3", "4", "5", "6", "7", "8", "9", "0", "1", "2", "8">>

LineLowerX ==
    <<"i", "s", "b", "n", " ", "0", "-", "8", "0", "4", "4", "-", "2", "9", "5", "7", "-", "x">>

LineGarbledJ ==
    <<"I", "S", "B", "N", " ", "S", "J", "8", "O", "1", "3", "4", "6", "8", "5", "9", "9", "1">>

LineGarbledB ==
    <<"I", "S", "B", "N", " ", "9", "7", "B", "O", "1", "3", "4", "6", "B", "5", "9", "9", "1">>

LinePlain10 == <<"0", "3", "0", "6", "4", "0", "6", "1", "5", "2">>

LineProse ==
    <<"n", "o", " ", "n", "u", "m", "b", "e", "r", "s", " ", "h", "e", "r", "e", " ", "a", "t",
      " ", "a", "l", "l">>

LineConfusable == <<"l", "i", "b", "|", "Z", "z", " ", "5">>

LineEAN == <<"4", "0", "0", "6", "3", "8", "1", "3", "3", "3", "9", "3", "1">>

LineLabelThenDecoy ==
    <<"I", "S", "B", "N", ":", " ", "9", "7", "8", "0", "1", "3", "4", "6", "8", "5", "9",
      "9", "1", " ", "9", "7", "8", "1", "2", "3", "4", "5", "6", "7", "8", "9", "7">>

\* The README's example call.
LineReadme ==
    <<"S", "o", "m", "e", " ", "t", "e", "x", "t", " ", "I", "S", "B", "N", ":", " ",
      "9", "7", "8", "-", "0", "-", "1", "3", "-", "4", "6", "8", "5", "9", "9", "-",
      "1", " ", "m", "o", "r", "e", " ", "t", "e", "x", "t">>

\* An unlabeled hyphenated ISBN-10 whose check character is X.
LineHyphenated10X ==
    <<"0", "-", "8", "0", "4", "4", "-", "2", "9", "5", "7", "-", "X">>

\* An unlabeled hyphenated ISBN-10 with a digit check character.
LineHyphenated10 ==
    <<"0", "-", "3", "0", "6", "-", "4", "0", "6", "1", "5", "-", "2">>

\* A fully mangled ISBN-13: garbled digits, one space after each character.
LineSpaced ==
    <<"9", " ", "7", " ", "B", " ", "O", " ", "1", " ", "3", " ", "4", " ", "6", " ",
      "B", " ", "5", " ", "9", " ", "9", " ", "1">>

\* An unlabeled ISBN-10 whose zeros were read as the letter O.
LineGarbled10 == <<"O", "3", "O", "6", "4", "O", "6", "1", "5", "2">>

\* A hyphenated ISBN-10 followed by a hyphenated ISBN-13 whose check digit
\* stands apart.
LineTenThenThirteen ==
    <<"0", "-", "3", "0", "6", "-", "4", "0", "6", "1", "5", "-", "2", " ", "9", "7",
      "8", "-", "0", "-", "1", "3", "-", "4", "6", "8", "5", "9", "9", ",", " ", "v",
      "o", "l", ".", " ", "1">>

OcrLines ==
    {LineLabelled13,
     LineLabelThenDecoy,
     LineDecoy13,
     LineLabelledEAN,
     LineLowerX,
     LineGarbledJ,
     LineGarbledB,
     LineProse,
     LineConfusable,
     LineEAN,
     LineReadme,
     LineHyphenated10X,
     LineHyphenated10,
     LineSpaced,
     LineGarbled10,
     LineTenThenThirteen}

MaxLines == 2

\* Strings handed to the validators: a seed with up to MaxEdits characters
\* replaced, inserted or deleted.
Seed13 == <<"9", "7", "8", "0", "1", "3", "4", "6", "8", "5", "9", "9", "1">>

SeedReadme10 == <<"0", "1", "3", "4", "6", "8", "5", "9", "9", "X">>

Seed10X == <<"0", "8", "0", "4", "4", "2", "9", "5", "7", "X">>

SeedEAN == <<"1", "2", "3", "4", "5", "6", "7", "8", "9", "0", "1", "2", "8">>

SeedReadmeHyphenated ==
    <<"0", "-", "1", "3", "-", "4", "6", "8", "5", "9", "9", "-", "X">>

Seed979 == <<"9", "7", "9", "1", "2", "3", "4", "5", "6", "7", "8", "9", "6">>

SeedHyphenated13 ==
    <<"9", "7", "8", "-", "0", "-", "1", "3", "-", "4", "6", "8", "5", "9", "9", "-", "1">>

SeedHyphenated10X == <<"0", "-", "8", "0", "4", "4", "-", "2", "9", "5", "7", "-", "X">>

SeedShort == <<"1", "2", "3", "4", "5">>

SeedCounting == <<"1", "2", "3", "4", "5", "6", "7", "8", "9", "0", "1", "2", "3">>

Seeds ==
    {Seed13, Seed979, SeedHyphenated13, SeedReadme10, SeedReadmeHyphenated, Seed10X,
     SeedHyphenated10X, SeedEAN, SeedShort, SeedCounting, <<>>}

EditChars == Digits \cup {"X", "x", "-", " ", "a"}

InsertChars == {"-", " ", "0"}

MaxEdits == 1

\* ------------------------------------------------------------------------
\* State
\* ------------------------------------------------------------------------

VARIABLES
    text,        \* the argument of the extractISBN call
    ocr,         \* the lines the OCR engine recognized, joined into text
    phase,       \* "input" | "running" | "done": position of the extractISBN call
    stage,       \* the strategy the call is at (1..6) while running
    normalized,  \* the local normalizedText of the call
    result,      \* the value the call returned (Null before it returns)
    tried,       \* the strategies the call has evaluated
    code,        \* the argument of a validator call
    edits,       \* number of edits applied to the seed of code
    fn,          \* the validator called, "none" before the call
    ret,         \* the boolean the validator returned
    isbn,        \* the argument of the lookupBook call
    apis,        \* the local apis of the call: APIConfig.getEnabledAPIs()
    api,         \* index in apis of the API whose search is awaited (0: none)
    lookup,      \* "idle" | "awaiting" | "returned": position of the lookupBook call
    status,      \* what setStatus last showed
    displayed,   \* the API whose book displayBook was called with ("none": no call)
    history,     \* the API whose book saveToHistory stored ("none": nothing stored)
    log,         \* the console: Trying / Found in / error entries in order
    path,        \* the handler that made the latest lookupBook call ("none": no call)
    currentMode, \* this.currentMode: "barcode" | "text"
    isScanning,  \* this.isScanning: Quagga has been started and not stopped
    stream,      \* TRUE: this.stream holds a MediaStream, FALSE: it is null
    scanCooldown,    \* this.scanCooldown
    lastScannedISBN, \* this.lastScannedISBN
    inits,       \* number of Quagga.init calls whose callback has not run yet
    cameras,     \* number of getUserMedia promises awaited by startCamera
    timers,      \* number of pending cooldown timeouts
    tesseractWorker, \* TRUE: this.tesseractWorker holds a worker, FALSE: it is null
    creating,    \* number of captureForOCR calls awaiting Tesseract.createWorker
    recognizing, \* number of captureForOCR calls awaiting recognize
    created,     \* number of Tesseract.createWorker calls made
    apiOrder,    \* APIConfig.searchOrder
    BookAPIs,    \* the BookAPIs object: own key -> name of the provider stored
    call,        \* the latest call of setSearchOrder or addProvider and its arguments
    isbnHistory, \* localStorage 'isbnHistory': the ISBNs of the stored entries
    saved        \* the isbn of the latest saveToHistory call that returned (Null: none)

extractVars == <<text, ocr, phase, stage, normalized, result, tried>>

validateVars == <<code, edits, fn, ret>>

lookupVars == <<isbn, apis, api, lookup, status, displayed, history, log>>

scannerVars == <<path, currentMode, isScanning, stream, scanCooldown, lastScannedISBN,
                 inits, cameras, timers>>

ocrVars == <<tesseractWorker, creating, recognizing, created>>

configVars == <<apiOrder, BookAPIs, call>>

storeVars == <<isbnHistory, saved>>

appVars == <<scannerVars, ocrVars, configVars, storeVars>>

vars == <<text, ocr, phase, stage, normalized, result, tried, code, edits, fn, ret,
          isbn, apis, api, lookup, status, displayed, history, log,
          path, currentMode, isScanning, stream, scanCooldown, lastScannedISBN,
          inits, cameras, timers, tesseractWorker, creating, recognizing, created,
          apiOrder, BookAPIs, call, isbnHistory, saved>>

InitExtract ==
    /\ text = <<>>
    /\ ocr = <<>>
    /\ phase = "input"
    /\ stage = 0
    /\ normalized = <<>>
    /\ result = Null
    /\ tried = {}

InitValidate ==
    /\ edits = 0
    /\ fn = "none"
    /\ ret = FALSE

InitLookup ==
    /\ isbn = <<>>
    /\ apis = <<>>
    /\ api = 0
    /\ lookup = "idle"
    /\ status = [kind |-> "none", api |-> "none"]
    /\ displayed = "none"
    /\ history = "none"
    /\ log = <<>>

\* APIConfig.searchOrder.
searchOrder == <<"libris", "googleBooks", "openLibrary", "openBD">>

\* The BookAPIs object literal: the name of the provider under each key.
Providers ==
    [k \in {"libris", "googleBooks", "openLibrary", "openBD"} |->
        CASE k = "libris" -> "Libris (KB)"
          [] k = "googleBooks" -> "Google Books"
          [] k = "openLibrary" -> "Open Library"
          [] k = "openBD" -> "OpenBD"]

\* A provider object as addProvider reads it: its name, and what typeof says
\* of its search property.
Provider(n, t) == [name |-> n, search |-> t]

\* An APIConfig call and its arguments.
Call(f, o, k, p) == [fn |-> f, order |-> o, key |-> k, provider |-> p]

NoCall == Call("none", <<>>, "", Provider("", "undefined"))

\* The fields of the scanner after the constructor and init(), which has
\* called startBarcodeScanning (currentMode is 'barcode') and awaits the
\* callback of Quagga.init; the module state of api-config.js and book-apis.js
\* after loading.
InitFields ==
    /\ path = "none"
    /\ currentMode = "barcode"
    /\ isScanning = FALSE
    /\ stream = FALSE
    /\ scanCooldown = FALSE
    /\ lastScannedISBN = Null
    /\ inits = 1
    /\ cameras = 0
    /\ timers = 0
    /\ tesseractWorker = FALSE
    /\ creating = 0
    /\ recognizing = 0
    /\ created = 0
    /\ apiOrder = searchOrder
    /\ BookAPIs = Providers
    /\ call = NoCall

\* The same with an empty localStorage.
InitApp ==
    /\ InitFields
    /\ isbnHistory = <<>>
    /\ saved = Null

\* ------------------------------------------------------------------------
\* The extractISBN call, one strategy per step
\* ------------------------------------------------------------------------

\* The OCR engine recognizes one more line of text.
OcrLine(l) ==
    /\ phase = "input"
    /\ Len(ocr) < MaxLines
    /\ ocr' = Append(ocr, l)
    /\ text' = IF ocr = <<>> THEN l ELSE text \o <<"\n">> \o l
    /\ UNCHANGED <<appVars, lookupVars, phase, stage, normalized, result, tried, validateVars>>

\* extractISBN(text) is entered: normalizedText is computed.
CallExtract ==
    /\ phase = "input"
    /\ phase' = "running"
    /\ stage' = 1
    /\ normalized' = normalizedText(text)
    /\ UNCHANGED <<appVars, lookupVars, text, ocr, result, tried, validateVars>>

\* Mutant of Returns: a validated candidate does not end the function.
ReturnsOnlyAtEnd(k, r) == k = NumStrategies

\* Does the function return after a strategy that produced r?
Returns(k, r) == r # Null \/ k = NumStrategies

\* Strategy k runs: it returns its validated candidate, or control falls
\* through to strategy k + 1 (to "return null" after the last one).
RunStrategy(k) ==
    /\ phase = "running"
    /\ stage = k
    /\ LET r == StrategyResult(k, text, normalized)
       IN  /\ result' = r
           /\ phase' = IF Returns(k, r) THEN "done" ELSE "running"
           /\ stage' = IF Returns(k, r) THEN k ELSE k + 1
    /\ tried' = tried \cup {k}
    /\ UNCHANGED <<appVars, lookupVars, text, ocr, normalized, validateVars>>

Init == InitExtract /\ InitValidate /\ InitLookup /\ InitApp /\ code = <<>>

Next ==
    \/ \E l \in OcrLines : OcrLine(l)
    \/ CallExtract
    \/ \E k \in 1..NumStrategies : RunStrategy(k)

Spec == Init /\ [][Next]_vars

\* ------------------------------------------------------------------------
\* Validator calls
\* ------------------------------------------------------------------------

ReplaceChar(i, c) ==
    /\ fn = "none"
    /\ edits < MaxEdits
    /\ code[i] # c
    /\ code' = [code EXCEPT ![i] = c]
    /\ edits' = edits + 1
    /\ UNCHANGED <<appVars, lookupVars, fn, ret, extractVars>>

InsertChar(i, c) ==
    /\ fn = "none"
    /\ edits < MaxEdits
    /\ code' = SubSeq(code, 1, i) \o <<c>> \o SubSeq(code, i + 1, Len(code))
    /\ edits' = edits + 1
    /\ UNCHANGED <<appVars, lookupVars, fn, ret, extractVars>>

DeleteChar(i) ==
    /\ fn = "none"
    /\ edits < MaxEdits
    /\ code' = SubSeq(code, 1, i - 1) \o SubSeq(code, i + 1, Len(code))
    /\ edits' = edits + 1
    /\ UNCHANGED <<appVars, lookupVars, fn, ret, extractVars>>

CallValidateISBN13 ==
    /\ fn = "none"
    /\ fn' = "validateISBN13"
    /\ ret' = validateISBN13(code)
    /\ UNCHANGED <<appVars, lookupVars, code, edits, extractVars>>

CallIsValidISBN10 ==
    /\ fn = "none"
    /\ fn' = "isValidISBN10"
    /\ ret' = isValidISBN10(code)
    /\ UNCHANGED <<appVars, lookupVars, code, edits, extractVars>>

CallIsValidISBN ==
    /\ fn = "none"
    /\ fn' = "isValidISBN"
    /\ ret' = isValidISBN(code)
    /\ UNCHANGED <<appVars, lookupVars, code, edits, extractVars>>

InitV == InitExtract /\ InitValidate /\ InitLookup /\ InitApp /\ code \in Seeds

NextV ==
    \/ \E i \in 1..Len(code), c \in EditChars : ReplaceChar(i, c)
    \/ \E i \in 0..Len(code), c \in InsertChars : InsertChar(i, c)
    \/ \E i \in 1..Len(code) : DeleteChar(i)
    \/ CallValidateISBN13
    \/ CallIsValidISBN10
    \/ CallIsValidISBN

SpecValidate == InitV /\ [][NextV]_vars

\* ------------------------------------------------------------------------
\* All four functions on arbitrary strings: every prefix of a seed or of a
\* recognized line
\* ------------------------------------------------------------------------

\* The last character of the string is deleted.
Backspace ==
    /\ fn = "none"
    /\ code # <<>>
    /\ code' = SubSeq(code, 1, Len(code) - 1)
    /\ UNCHANGED <<appVars, lookupVars, edits, fn, ret, extractVars>>

\* extractISBN called on the string, as one step.
CallExtractISBN ==
    /\ fn = "none"
    /\ fn' = "extractISBN"
    /\ result' = extractISBN(code)
    /\ UNCHANGED <<appVars, lookupVars, code, edits, ret, text, ocr, phase, stage, normalized, tried>>

InitT == InitExtract /\ InitValidate /\ InitLookup /\ InitApp /\ code \in Seeds \cup OcrLines

NextT ==
    \/ Backspace
    \/ CallValidateISBN13
    \/ CallIsValidISBN10
    \/ CallIsValidISBN
    \/ CallExtractISBN

SpecTotal == InitT /\ [][NextT]_vars

\* ------------------------------------------------------------------------
\* The lookupBook call, one step per resumption after an await
\* ------------------------------------------------------------------------

\* APIConfig.getEnabledAPIs(): one entry per key of this.searchOrder, in order.
getEnabledAPIs == [i \in 1..Len(apiOrder) |-> apiOrder[i]]

\* The ISBNs handed to lookupBook.
LookupISBNs == {Seed13, LinePlain10}

Entry(ev, name) == [ev |-> ev, api |-> name]

\* The number of entries saveToHistory keeps.
HistoryLimit == 20

\* saveToHistory without its slice.
saveToHistoryUncut(h, i) ==
    LET Other(e) == e # i
    IN  <<i>> \o SelectSeq(h, Other)

\* What saveToHistory(book, i) stores when h is stored: the entries of other
\* ISBNs kept in order, the new entry put first, the first 20 kept.
saveToHistory(h, i) ==
    LET Other(e) == e # i
        unshifted == <<i>> \o SelectSeq(h, Other)
    IN  SubSeq(unshifted, 1, IF Len(unshifted) > HistoryLimit THEN HistoryLimit
                             ELSE Len(unshifted))

\* The for loop from the end of the iteration for list[i] (i = 0: from its
\* start) with console lg: the next API's search is called and awaited, or
\* the loop is over and the 'No book found' status is set.
TryNext(list, i, lg) ==
    IF i < Len(list)
    THEN /\ api' = i + 1
         /\ log' = Append(lg, Entry("Trying", list[i + 1]))
         /\ status' = [kind |-> "Searching", api |-> list[i + 1]]
         /\ lookup' = "awaiting"
    ELSE /\ api' = 0
         /\ log' = lg
         /\ status' = [kind |-> "No book found", api |-> "none"]
         /\ lookup' = "returned"

\* lookupBook(i) up to its first await.
LookupBook(i) ==
    /\ lookup = "idle"
    /\ isbn' = i
    /\ apis' = getEnabledAPIs
    /\ TryNext(getEnabledAPIs, 0, log)
    /\ UNCHANGED <<appVars, displayed, history, extractVars, validateVars>>

\* The awaited search resolves with found = true: displayBook is called,
\* then saveToHistory, which stores the book or throws (JSON.parse of the
\* stored history, localStorage.setItem); what it throws is caught by the
\* handler of the loop body.
SearchFinds(stored) ==
    /\ lookup = "awaiting"
    /\ displayed' = apis[api]
    /\ IF stored
       THEN /\ history' = apis[api]
            /\ isbnHistory' = saveToHistory(isbnHistory, isbn)
            /\ saved' = isbn
            /\ log' = Append(log, Entry("Found in", apis[api]))
            /\ status' = [kind |-> "Book found via", api |-> apis[api]]
            /\ lookup' = "returned"
            /\ api' = 0
       ELSE /\ UNCHANGED <<history, storeVars>>
            /\ TryNext(apis, api,
                       log \o <<Entry("Found in", apis[api]), Entry("error", apis[api])>>)
    /\ UNCHANGED <<scannerVars, ocrVars, configVars, isbn, apis, extractVars, validateVars>>

\* The awaited search resolves with found = false.
SearchMisses ==
    /\ lookup = "awaiting"
    /\ TryNext(apis, api, log)
    /\ UNCHANGED <<appVars, isbn, apis, displayed, history, extractVars, validateVars>>

\* The awaited search rejects: the catch logs the error and the loop goes on.
SearchThrows ==
    /\ lookup = "awaiting"
    /\ TryNext(apis, api, Append(log, Entry("error", apis[api])))
    /\ UNCHANGED <<appVars, isbn, apis, displayed, history, extractVars, validateVars>>

InitL == InitExtract /\ InitValidate /\ InitLookup /\ InitApp /\ code = <<>>

NextL ==
    \/ \E i \in LookupISBNs : LookupBook(i)
    \/ \E stored \in BOOLEAN : SearchFinds(stored)
    \/ SearchMisses
    \/ SearchThrows

SpecLookup == InitL /\ [][NextL]_vars

\* ------------------------------------------------------------------------
\* The scanner: mode switches, barcode detections and their asynchronous
\* completions, one step per handler run up to its next await.  The status
\* line is followed for lookupBook and manualSearch only.
\* ------------------------------------------------------------------------

\* Pending Quagga.init callbacks, pending getUserMedia promises (each).
MaxPending == 2

\* lookupBook calls made in one behaviour of the scanner.
MaxLookups == 2

\* What the decoder hands to onDetected: EAN-13 codes, and Code 128 codes,
\* which may carry any ASCII character.
DetectedCodes == {Seed13, Seed979, SeedEAN, SeedHyphenated13}

\* lookupBook(i) called by handler p, up to its first await.
StartLookup(p, i) ==
    /\ path' = p
    /\ isbn' = i
    /\ apis' = getEnabledAPIs
    /\ TryNext(getEnabledAPIs, 0, log)
    /\ UNCHANGED <<displayed, history>>

\* The early return of the onDetected handler.
DetectionIgnoredOnlyWhenStopped == ~isScanning

DetectionIgnored == scanCooldown \/ ~isScanning

\* setMode(m): the early return, stopAllMedia (which awaits nothing), then
\* startBarcodeScanning up to Quagga.init or startCamera up to getUserMedia.
SetMode(m) ==
    /\ currentMode # m
    /\ currentMode' = m
    /\ isScanning' = FALSE
    /\ stream' = FALSE
    /\ IF m = "barcode"
       THEN /\ inits < MaxPending
            /\ inits' = inits + 1
            /\ cameras' = cameras
       ELSE /\ cameras < MaxPending
            /\ cameras' = cameras + 1
            /\ inits' = inits
    /\ UNCHANGED <<path, scanCooldown, lastScannedISBN, timers, ocrVars, configVars,
                   storeVars, lookupVars, extractVars, validateVars>>

\* The callback of Quagga.init runs, with or without an error.
QuaggaInitDone(err) ==
    /\ inits > 0
    /\ inits' = inits - 1
    /\ isScanning' = IF err THEN isScanning ELSE TRUE
    /\ UNCHANGED <<path, currentMode, stream, scanCooldown, lastScannedISBN, cameras,
                   timers, ocrVars, configVars, storeVars, lookupVars, extractVars,
                   validateVars>>

\* The getUserMedia promise awaited by startCamera settles: the stream is
\* stored, or the catch block reports the error.
GetUserMediaDone(ok) ==
    /\ cameras > 0
    /\ cameras' = cameras - 1
    /\ stream' = IF ok THEN TRUE ELSE stream
    /\ UNCHANGED <<path, currentMode, isScanning, scanCooldown, lastScannedISBN, inits,
                   timers, ocrVars, configVars, storeVars, lookupVars, extractVars,
                   validateVars>>

\* The onDetected handler runs with result.codeResult.code = c and gets past
\* its early return and its isValidISBN test.
Detected(c) ==
    /\ Len(log) < MaxLookups
    /\ ~DetectionIgnored
    /\ isValidISBN(c)
    /\ scanCooldown' = TRUE
    /\ lastScannedISBN' = c
    /\ StartLookup("barcode", c)
    /\ timers' = timers + 1
    /\ UNCHANGED <<currentMode, isScanning, stream, inits, cameras, ocrVars, configVars,
                   storeVars, extractVars, validateVars>>

\* The 2000 ms timeout set by an accepted detection fires.
CooldownOver ==
    /\ timers > 0
    /\ timers' = timers - 1
    /\ scanCooldown' = FALSE
    /\ UNCHANGED <<path, currentMode, isScanning, stream, lastScannedISBN, inits, cameras,
                   ocrVars, configVars, storeVars, lookupVars, extractVars, validateVars>>

InitS == InitExtract /\ InitValidate /\ InitLookup /\ InitApp /\ code = <<>>

NextS ==
    \/ \E m \in {"barcode", "text"} : SetMode(m)
    \/ \E err \in BOOLEAN : QuaggaInitDone(err)
    \/ \E ok \in BOOLEAN : GetUserMediaDone(ok)
    \/ \E c \in DetectedCodes : Detected(c)
    \/ CooldownOver

SpecScanner == InitS /\ [][NextS]_vars

\* ------------------------------------------------------------------------
\* Manual entry: the input field is typed into, then searched
\* ------------------------------------------------------------------------

\* Values of the ISBN input field before the edits.
ManualInputs ==
    {<<>>, <<" ", "-">>, Seed13, SeedHyphenated13, Seed10X, SeedHyphenated10X, SeedShort,
     SeedEAN}

\* this.isbnInput.value.replace(/[\s\-]/g, '') with the field holding v.
ManualInputRaw(v) == v

ManualInput(v) == RemoveClass(v, WS \cup {"-"})

\* manualSearch() with the input field holding code.
ManualSearch ==
    /\ Len(log) < MaxLookups
    /\ LET i == ManualInput(code)
       IN  IF i = <<>>
           THEN /\ status' = [kind |-> "Please enter an ISBN", api |-> "none"]
                /\ UNCHANGED <<path, isbn, apis, api, lookup, displayed, history, log>>
           ELSE IF ~isValidISBN(i) /\ ~isValidISBN10(i)
           THEN /\ status' = [kind |-> "Invalid ISBN format", api |-> "none"]
                /\ UNCHANGED <<path, isbn, apis, api, lookup, displayed, history, log>>
           ELSE StartLookup("manual", i)
    /\ UNCHANGED <<currentMode, isScanning, stream, scanCooldown, lastScannedISBN, inits,
                   cameras, timers, ocrVars, configVars, storeVars, extractVars,
                   validateVars>>

InitM == InitExtract /\ InitValidate /\ InitLookup /\ InitApp /\ code \in ManualInputs

NextM ==
    \/ \E i \in 1..Len(code), c \in EditChars : ReplaceChar(i, c)
    \/ \E i \in 0..Len(code), c \in InsertChars : InsertChar(i, c)
    \/ \E i \in 1..Len(code) : DeleteChar(i)
    \/ ManualSearch

SpecManual == InitM /\ [][NextM]_vars

\* ------------------------------------------------------------------------
\* Text capture: captureForOCR, one step per resumption after an await
\* ------------------------------------------------------------------------

\* Tesseract.createWorker calls made in one behaviour.
MaxCreated == 3

\* Texts a recognize call may resolve with.
OcrTexts == {LineLabelled13, LineHyphenated10, LineHyphenated10X, LineDecoy13, LineProse}

\* captureForOCR() up to its first await: of Tesseract.createWorker when
\* this.tesseractWorker is null, of recognize otherwise.
CaptureForOCR ==
    /\ creating + recognizing < MaxPending
    /\ IF ~tesseractWorker
       THEN /\ created < MaxCreated
            /\ created' = created + 1
            /\ creating' = creating + 1
            /\ recognizing' = recognizing
       ELSE /\ recognizing' = recognizing + 1
            /\ UNCHANGED <<created, creating>>
    /\ status' = [kind |-> "Processing image with OCR", api |-> "none"]
    /\ UNCHANGED <<tesseractWorker, scannerVars, configVars, storeVars, isbn, apis, api,
                   lookup, displayed, history, log, extractVars, validateVars>>

\* An awaited createWorker settles: the worker is stored and recognize is
\* called and awaited, or the catch block reports the failure.
WorkerCreated(ok) ==
    /\ creating > 0
    /\ creating' = creating - 1
    /\ IF ok
       THEN /\ tesseractWorker' = TRUE
            /\ recognizing' = recognizing + 1
            /\ status' = status
       ELSE /\ status' = [kind |-> "OCR processing failed", api |-> "none"]
            /\ UNCHANGED <<tesseractWorker, recognizing>>
    /\ UNCHANGED <<created, scannerVars, configVars, storeVars, isbn, apis, api, lookup,
                   displayed, history, log, extractVars, validateVars>>

\* An awaited recognize resolves with result.data.text = t: extractISBN is
\* called with it (text and result record the call), then lookupBook with
\* what it returned, or the 'No ISBN found' status is set.
Recognized(t) ==
    /\ recognizing > 0
    /\ Len(log) < MaxLookups
    /\ recognizing' = recognizing - 1
    /\ text' = t
    /\ result' = extractISBN(t)
    /\ IF result' # Null
       THEN /\ StartLookup("ocr", result')
       ELSE /\ status' = [kind |-> "No ISBN found in image", api |-> "none"]
            /\ UNCHANGED <<path, isbn, apis, api, lookup, displayed, history, log>>
    /\ UNCHANGED <<currentMode, isScanning, stream, scanCooldown, lastScannedISBN, inits,
                   cameras, timers, tesseractWorker, creating, created, configVars,
                   storeVars, ocr, phase, stage, normalized, tried, validateVars>>

\* An awaited recognize rejects: the catch block reports the failure.
RecognizeFails ==
    /\ recognizing > 0
    /\ recognizing' = recognizing - 1
    /\ status' = [kind |-> "OCR processing failed", api |-> "none"]
    /\ UNCHANGED <<tesseractWorker, creating, created, scannerVars, configVars,
                   storeVars, isbn, apis, api, lookup, displayed, history, log,
                   extractVars, validateVars>>

InitO == InitExtract /\ InitValidate /\ InitLookup /\ InitApp /\ code = <<>>

NextO ==
    \/ CaptureForOCR
    \/ \E ok \in BOOLEAN : WorkerCreated(ok)
    \/ \E t \in OcrTexts : Recognized(t)
    \/ RecognizeFails

SpecOCR == InitO /\ [][NextO]_vars

\* ------------------------------------------------------------------------
\* The API configuration: setSearchOrder, addProvider, then a lookup
\* ------------------------------------------------------------------------

\* Length of the array handed to setSearchOrder.
MaxOrder == 2

\* Keys handed to setSearchOrder: a built-in provider, the key of a custom
\* provider, a key nothing was stored under, a property every object
\* inherits from Object.prototype.
OrderKeys == {"libris", "myAPI", "nonesuch", "constructor"}

Orders == UNION {[1..n -> OrderKeys] : n \in 0..MaxOrder}

\* Keys and provider objects handed to addProvider.
ProviderKeys == {"myAPI", "libris"}

ProviderArgs ==
    {Provider(n, t) : n \in {"", "My Book API"}, t \in {"function", "undefined"}}

\* Properties an object literal inherits (one of them stands for all).
ObjectPrototype == {"constructor"}

\* obj[key] for the object literal obj: the own property, else the inherited
\* one (a function), else undefined.
Property(obj, key) ==
    IF key \in DOMAIN obj THEN obj[key]
    ELSE IF key \in ObjectPrototype THEN "function" ELSE "undefined"

\* The values in play are non-empty strings and functions, or undefined.
Truthy(v) == v \notin {"undefined", ""}

\* setSearchOrder(o).
SetSearchOrder(o) ==
    /\ call' = Call("setSearchOrder", o, "", Provider("", "undefined"))
    /\ LET Known(key) == Truthy(Property(BookAPIs, key))
       IN  apiOrder' = SelectSeq(o, Known)
    /\ UNCHANGED <<BookAPIs, scannerVars, ocrVars, storeVars, lookupVars, extractVars,
                   validateVars>>

\* addProvider(k, p).
AddProvider(k, p) ==
    /\ call' = Call("addProvider", <<>>, k, p)
    /\ BookAPIs' = IF Truthy(p.name) /\ p.search = "function"
                   THEN [key \in DOMAIN BookAPIs \cup {k} |->
                            IF key = k THEN p.name ELSE BookAPIs[key]]
                   ELSE BookAPIs
    /\ UNCHANGED <<apiOrder, scannerVars, ocrVars, storeVars, lookupVars, extractVars,
                   validateVars>>

InitC == InitExtract /\ InitValidate /\ InitLookup /\ InitApp /\ code = <<>>

NextC ==
    \/ \E o \in Orders : SetSearchOrder(o)
    \/ \E k \in ProviderKeys, p \in ProviderArgs : AddProvider(k, p)
    \/ \E i \in LookupISBNs : LookupBook(i)

SpecConfig == InitC /\ [][NextC]_vars

\* ------------------------------------------------------------------------
\* The scan history in localStorage
\* ------------------------------------------------------------------------

\* The n-th of a series of ISBN-13 strings: 9780000000, the two digits of n
\* and the check digit.
BookPrefix == <<"9", "7", "8", "0", "0", "0", "0", "0", "0", "0">>

DigitChar(d) == CHOOSE c \in Digits : DigitValue(c) = d

Book(n) ==
    LET body == BookPrefix \o <<DigitChar(n \div 10), DigitChar(n % 10)>>
    IN  body \o <<CHOOSE c \in Digits : validateISBN13(body \o <<c>>)>>

\* The history after Book(1) .. Book(k) were saved in this order.
Recent(k) == [j \in 1..k |-> Book(k + 1 - j)]

\* What localStorage holds when the page is opened: nothing, or the history of
\* an earlier visit, one short of the limit or at the limit.
StoredHistories == {<<>>, Recent(HistoryLimit - 1), Recent(HistoryLimit)}

\* The ISBNs saved: old and recent entries of the stored histories, new ones.
SavedISBNs ==
    {Book(1), Book(HistoryLimit \div 2), Book(HistoryLimit), Book(HistoryLimit + 1),
     Book(HistoryLimit + 2)}

\* saveToHistory(book, i), called by a lookup that found the book: the new
\* history is stored, or JSON.parse or localStorage.setItem throws and the
\* stored history stays.
SaveToHistory(i, ok) ==
    /\ IF ok
       THEN /\ isbnHistory' = saveToHistory(isbnHistory, i)
            /\ saved' = i
       ELSE UNCHANGED storeVars
    /\ UNCHANGED <<scannerVars, ocrVars, configVars, lookupVars, extractVars, validateVars>>

InitH ==
    /\ InitExtract /\ InitValidate /\ InitLookup /\ InitFields /\ code = <<>>
    /\ isbnHistory \in StoredHistories
    /\ saved = Null

NextH == \E i \in SavedISBNs, ok \in BOOLEAN : SaveToHistory(i, ok)

SpecHistory == InitH /\ [][NextH]_vars

\* ------------------------------------------------------------------------
\* Properties of the validators (checked under SpecValidate)
\* ------------------------------------------------------------------------

\* The sum of f over the index set S.
RECURSIVE SumOver(_, _)
SumOver(f, S) ==
    IF S = {} THEN 0
    ELSE LET x == CHOOSE y \in S : TRUE IN f[x] + SumOver(f, S \ {x})

AllDigits(s) == \A i \in 1..Len(s) : s[i] \in Digits

\* The ISBN-13 rule: digits at even 0-based indices plus three times the
\* digits at odd indices, divisible by 10.
Rule13(s) ==
    LET d == [i \in 0..12 |-> DigitValue(s[i + 1])]
    IN  (SumOver(d, {0, 2, 4, 6, 8, 10, 12}) + 3 * SumOver(d, {1, 3, 5, 7, 9, 11})) % 10 = 0

\* The ISBN-10 rule on a cleaned, upper-cased string: ten characters, nine
\* digits and a digit or X, sum of digit_i * (10 - i) plus the check value
\* divisible by 11.
Rule10(c) ==
    /\ Len(c) = 10
    /\ \A i \in 1..9 : c[i] \in Digits
    /\ c[10] \in Digits \cup {"X"}
    /\ LET w == [i \in 0..8 |-> DigitValue(c[i + 1]) * (10 - i)]
           check == IF c[10] = "X" THEN 10 ELSE DigitValue(c[10])
       IN  (SumOver(w, 0..8) + check) % 11 = 0

Str9780134685992 == <<"9", "7", "8", "0", "1", "3", "4", "6", "8", "5", "9", "9", "2">>

Str0134685990 == <<"0", "1", "3", "4", "6", "8", "5", "9", "9", "0">>

Str0134685997 == <<"0", "1", "3", "4", "6", "8", "5", "9", "9", "7">>

\* C2: on every string of exactly 13 ASCII digits validateISBN13 returns true
\* iff the digits at even indices plus three times the digits at odd indices
\* sum to a multiple of 10.
C2_Checksum13 ==
    (fn = "validateISBN13" /\ Len(code) = 13 /\ AllDigits(code)) => (ret <=> Rule13(code))

\* C2 witness: the call rejected 9780134685992, one digit off the accepted
\* 9780134685991.
C2_Witness == fn = "validateISBN13" /\ code = Str9780134685992 /\ ret = FALSE

\* C3: isValidISBN10 returns true iff the string with whitespace and hyphens
\* removed and upper-cased is nine digits and a digit or X whose weighted
\* sum is divisible by 11.
C3_Checksum10 ==
    fn = "isValidISBN10" => (ret <=> Rule10(toUpperCase(RemoveClass(code, WS \cup {"-"}))))

\* C3 witness: a hyphenated ISBN-10 with a lower-case check character was
\* accepted.
C3_Witness ==
    /\ fn = "isValidISBN10"
    /\ ret = TRUE
    /\ \E i \in 1..Len(code) : code[i] = "-"
    /\ code[Len(code)] = "x"

C5_Dispatch ==
    fn = "isValidISBN" =>
        LET c == RemoveClass(code, WS \cup {"-"})
        IN  ret <=> \/ /\ Len(c) = 13
                       /\ AllDigits(c)
                       /\ SubSeq(c, 1, 3) \in {<<"9", "7", "8">>, <<"9", "7", "9">>}
                       /\ Rule13(c)
                    \/ Len(c) = 10 /\ Rule10(toUpperCase(c))

\* C5 witness: a 13-digit string with a valid checksum and another prefix
\* was rejected.
C5_Witness ==
    /\ fn = "isValidISBN"
    /\ ret = FALSE
    /\ Len(code) = 13 /\ AllDigits(code) /\ Rule13(code)
    /\ SubSeq(code, 1, 3) = <<"1", "2", "3">>

\* ------------------------------------------------------------------------
\* Properties of extractISBN (checked under Spec)
\* ------------------------------------------------------------------------

Range(f) == {f[i] : i \in DOMAIN f}

\* A value fit to be returned: an ISBN-10 of nine digits and a digit or X
\* with a valid checksum, or 13 digits with prefix 978 or 979 and a valid
\* checksum.
IsBookISBN(r) ==
    \/ Rule10(r)
    \/ /\ Len(r) = 13
       /\ AllDigits(r)
       /\ SubSeq(r, 1, 3) \in {<<"9", "7", "8">>, <<"9", "7", "9">>}
       /\ Rule13(r)

\* C1 as claimed: every non-null value returned by extractISBN is a valid
\* ISBN-10 (upper-case X only) or a valid 978/979 ISBN-13.
C1_Original == (phase = "done" /\ result # Null) => IsBookISBN(result)

\* The first strategy, in the order 1..6, that has a validated candidate on
\* the call's text, from strategy k on (0: none).
RECURSIVE FirstHit(_)
FirstHit(k) ==
    IF k > NumStrategies THEN 0
    ELSE IF StrategyResult(k, text, normalized) # Null THEN k
    ELSE FirstHit(k + 1)

\* C6: the call returns the candidate of the first strategy, in the order
\* 1..6, that validates one, and no later strategy is evaluated.
C6_FirstStrategyWins ==
    phase = "done" =>
        LET k == FirstHit(1)
        IN  k # 0 =>
                /\ result = StrategyResult(k, text, normalized)
                /\ tried = 1..k

\* C6 witness: strategy 1 returned the labelled ISBN although strategy 2 has
\* a different validated candidate, which stands earlier in the text.
C6_Witness ==
    /\ phase = "done"
    /\ tried = {1}
    /\ result = Seed13
    /\ ocr[1] = LineDecoy13
    /\ Strategy2(normalized) = LineDecoy13

\* The text, patterns and flags of the strategies that loop over patterns.
LoopKind(k) == CASE k = 1 -> "label" [] k = 2 -> "isbn13" [] k = 4 -> "isbn10"

LoopText(k) == CASE k = 1 -> text [] k = 2 -> normalized [] k = 4 -> toUpperCase(text)

LoopPatterns(k) ==
    CASE k = 1 -> isbnLabelPatterns [] k = 2 -> isbn13Patterns [] k = 4 -> isbn10Patterns

LoopIgnoreCase(k) == k # 2

\* The matches of the j-th pattern of strategy k whose candidate validates.
Valids(k, j) ==
    {m \in Range(matchAll(LoopText(k), LoopPatterns(k)[j], LoopIgnoreCase(k))) :
        LoopBody(LoopKind(k), m) # Null}

AllValids(k) == UNION {Valids(k, j) : j \in 1..Len(LoopPatterns(k))}

\* m is leftmost in the text among the matches S.
IsLeftmost(m, S) == \A o \in S : m.capAt <= o.capAt

\* C7 as claimed: a strategy returns the validating candidate that stands
\* leftmost in the text, whichever of its patterns finds it.
C7_Original ==
    (phase = "done" /\ result # Null /\ stage \in {1, 2, 4}) =>
        \E m \in AllValids(stage) :
            IsLeftmost(m, AllValids(stage)) /\ result = LoopBody(LoopKind(stage), m)

\* C7 amended: within strategy 1, 2 or 4 the patterns are tried in list
\* order and the matches of one pattern left to right: the result is the
\* leftmost validating match of the first pattern that has one.
C7_PatternOrderThenLeftmost ==
    (phase = "done" /\ result # Null /\ stage \in {1, 2, 4}) =>
        \E j \in 1..Len(LoopPatterns(stage)) :
            /\ \A i \in 1..(j - 1) : Valids(stage, i) = {}
            /\ \E m \in Valids(stage, j) :
                   /\ IsLeftmost(m, Valids(stage, j))
                   /\ result = LoopBody(LoopKind(stage), m)

\* C7 witness: strategy 1 returned a match of its first pattern although a
\* validating match of a later pattern, a different ISBN, stands further
\* left in the text.
C7_Witness ==
    /\ phase = "done"
    /\ stage = 1
    /\ \E m \in Valids(1, 1) :
           /\ result = LoopBody("label", m)
           /\ \E o \in Valids(1, 2) : o.capAt < m.capAt /\ LoopBody("label", o) # result

\* The normalization as documented: I, l and | to 1, O/o to 0, S/s to 5,
\* B/b to 8, Z/z to 2, newline to space, anything else upper-cased.
DocumentedChar(c) ==
    CASE c \in {"I", "l", "|"} -> "1"
      [] c \in {"O", "o"} -> "0"
      [] c \in {"S", "s"} -> "5"
      [] c \in {"B", "b"} -> "8"
      [] c \in {"Z", "z"} -> "2"
      [] c = "\n" -> " "
      [] OTHER -> UpperChar(c)

\* C8 as claimed: the normalized text is the raw text with each character
\* replaced as documented.
C8_Original ==
    phase # "input" => normalized = [i \in 1..Len(text) |-> DocumentedChar(text[i])]

\* The lines that hold an unlabeled 13-digit number.
Decoys == {LineDecoy13, LineEAN}

\* The lines that hold the label "ISBN: 9780134685991", alone or followed on
\* the same line by a decoy.
LabelLines == {LineLabelled13, LineLabelThenDecoy}

\* C9: when the text holds the label "ISBN: 9780134685991" once, with
\* unlabeled 13-digit decoys before or after it (on the same line or on
\* other lines), the call returns 9780134685991.
C9_LabelBeatsDecoys ==
    (/\ phase = "done"
     /\ \E i \in 1..Len(ocr) :
            ocr[i] \in LabelLines /\ \A j \in 1..Len(ocr) : j # i => ocr[j] \in Decoys)
        => result = Seed13

\* C9 witness: a checksum-valid 978 decoy before and after the label, and
\* the labelled ISBN returned.
C9_Witness ==
    /\ phase = "done"
    /\ ocr = <<LineDecoy13, LineLabelThenDecoy>>
    /\ result = Seed13

\* C10 as claimed: extractISBN("ISBN SJ8O134685991") returns a non-null
\* result.
C10_Original == (phase = "done" /\ text = LineGarbledJ) => result # Null

\* C10 amended: extractISBN("ISBN SJ8O134685991") returns null (J is not
\* substituted and S becomes 5, so no 978/979 window exists), while
\* "ISBN 97BO1346B5991", whose substituted form holds 9780134685991,
\* returns that ISBN.
C10_GarbledExamples ==
    phase = "done" =>
        /\ (text = LineGarbledJ => result = Null)
        /\ (text = LineGarbledB => result = Seed13)

\* C10 witness: the call on "ISBN SJ8O134685991" ran all six strategies and
\* returned null.
C10_Witness ==
    /\ phase = "done"
    /\ text = LineGarbledJ
    /\ tried = 1..NumStrategies
    /\ result = Null

\* ------------------------------------------------------------------------
\* Totality (checked under SpecTotal)
\* ------------------------------------------------------------------------

IsString(v) == \A i \in 1..Len(v) : v[i] \in Chars

\* C11: on every string (empty, with non-digits, shorter or longer than an
\* ISBN, cut anywhere) each validator returns a boolean and extractISBN returns a string
\* or null; no call ends with an exception.
C11_Total ==
    /\ fn \in {"validateISBN13", "isValidISBN10", "isValidISBN"} => ret \in BOOLEAN
    /\ fn = "extractISBN" => result # Threw /\ (result = Null \/ IsString(result))

\* C11 witness: extractISBN called on the empty string, where
\* String.prototype.match finds nothing, returned null.
C11_Witness == fn = "extractISBN" /\ code = <<>> /\ result = Null

\* C14: isValidISBN is invariant under hyphens and whitespace: its verdict
\* on a string equals its verdict on the string with every hyphen and
\* whitespace character removed.
C14_SeparatorInvariant ==
    fn = "isValidISBN" => ret = isValidISBN(RemoveClass(code, WS \cup {"-"}))

\* C14 witness: a string holding both a hyphen and a space (one of them
\* inserted by an edit) is accepted.
C14_Witness ==
    /\ fn = "isValidISBN" /\ ret = TRUE /\ edits = 1
    /\ \E i \in 1..Len(code) : code[i] = " "
    /\ \E i \in 1..Len(code) : code[i] = "-"

\* ------------------------------------------------------------------------
\* The null result, the form of a result, the text each strategy reads
\* (checked under Spec)
\* ------------------------------------------------------------------------

\* C13: when no strategy yields a validated candidate the call returns null
\* after all six strategies; in particular it returns null for every text
\* whose normalized form holds fewer than 9 digits.
C13_NullResult ==
    phase = "done" =>
        /\ (\A k \in 1..NumStrategies : StrategyResult(k, text, normalized) = Null)
               => result = Null /\ tried = 1..NumStrategies
        /\ Len(KeepClass(normalizedText(text), Digits)) < 9 => result = Null

\* C13 witness: the call on "no numbers here at all" returned null after all
\* six strategies.
C13_Witness ==
    /\ phase = "done"
    /\ text = LineProse
    /\ result = Null
    /\ tried = 1..NumStrategies

\* C15: a non-null result holds no whitespace, hyphen or dot; for a text
\* holding the README's line, where "ISBN:" is followed by the hyphenated
\* 978-0-13-468599-1 and then by words, the result is 9780134685991.
C15_StrippedResult ==
    phase = "done" =>
        /\ result # Null =>
               \A i \in 1..Len(result) : result[i] \notin WS \cup {"-", "."}
        /\ (\E i \in 1..Len(ocr) : ocr[i] = LineReadme) => result = Seed13

\* C15 witness: the call on the README's example returned from strategy 1.
C15_Witness ==
    /\ phase = "done"
    /\ text = LineReadme
    /\ tried = {1}
    /\ result = Seed13

\* C17 as stated: the call on a text that is one unlabeled, checksum-valid
\* ISBN-10 written in hyphenated groups, its check character a digit or X,
\* returns that ISBN's 10 characters without the hyphens.
C17_Original ==
    phase = "done" /\ text \in {LineHyphenated10, LineHyphenated10X}
        => result = RemoveClass(text, {"-"})

\* The captured groups, with whitespace, hyphens and dots removed, of the
\* matches of the j-th label pattern in the original text, in match order.
LabelCaptures(j) ==
    LET ms == matchAll(text, isbnLabelPatterns[j], TRUE)
    IN  [i \in 1..Len(ms) |-> RemoveClass(ms[i].cap, WS \cup {"-", "."})]

\* A stripped capture that strategy 1 accepts: 13 characters passing the
\* ISBN-13 rule, or 10 characters passing the ISBN-10 rule.
LabelAccepts(c) ==
    \/ Len(c) = 13 /\ AllDigits(c) /\ Rule13(c)
    \/ Len(c) = 10 /\ Rule10(toUpperCase(c))

\* C18: strategy 1 matches the label in the original text, whatever its
\* case, and accepts a capture only if its stripped form has length 13 and
\* validates as ISBN-13 or length 10 and validates as ISBN-10; any other
\* capture is skipped and the next match is tried.  So the call returns from
\* strategy 1 with an accepted capture exactly when some capture is accepted.
C18_LabelStrategy ==
    LET accepted == {c \in UNION {Range(LabelCaptures(j)) : j \in 1..Len(isbnLabelPatterns)} :
                        LabelAccepts(c)}
    IN  1 \in tried =>
            /\ accepted # {} => phase = "done" /\ tried = {1} /\ result \in accepted
            /\ accepted = {} => result = Null \/ tried # {1}

\* C18 witness: strategy 1 returned the second capture of its first pattern,
\* the first one having been skipped for its length.
C18_Witness ==
    /\ phase = "done"
    /\ tried = {1}
    /\ Len(LabelCaptures(1)) >= 2
    /\ Len(LabelCaptures(1)[1]) \notin {10, 13}
    /\ result = LabelCaptures(1)[2]

Str0306406152 == <<"0", "3", "0", "6", "4", "0", "6", "1", "5", "2">>

\* C19 as stated: strategies 2 to 6 all match against the normalized text,
\* so each of them returns what it returns when handed the normalized text
\* in place of the original one.
C19_Original ==
    phase = "done" =>
        \A k \in 2..NumStrategies :
            StrategyResult(k, text, normalized) = StrategyResult(k, normalized, normalized)

\* C19 amended: strategies 2, 3 and 6 read the normalized text only, and
\* strategies 1, 4 and 5 the original text only (strategy 4 upper-cased);
\* so O3O64O6152, whose normalized form 0306406152 strategy 4 would accept,
\* gives null.
C19_TextRead ==
    /\ (phase = "running" /\ stage \in {2, 3, 6}) =>
           StrategyResult(stage, text, normalized)
               = StrategyResult(stage, normalized, normalized)
    /\ (phase = "running" /\ stage \in {1, 4, 5}) =>
           StrategyResult(stage, text, normalized) = StrategyResult(stage, text, text)
    /\ (phase = "done" /\ text = LineGarbled10) =>
           result = Null /\ Strategy4(normalized) = Str0306406152

\* C19 witness: the call on O3O64O6152 went through all six strategies and
\* returned null.
C19_Witness ==
    /\ phase = "done"
    /\ text = LineGarbled10
    /\ normalized = Str0306406152
    /\ tried = 1..NumStrategies
    /\ result = Null

\* C20: if the digits of the normalized text, all other characters deleted,
\* hold a 13-character window that starts with 978 or 979 and passes the
\* ISBN-13 rule, the call returns a non-null result.
C20_FallbackComplete ==
    LET justDigits == KeepClass(normalizedText(text), Digits)
    IN  (/\ phase = "done"
         /\ \E i \in 1..(Len(justDigits) - 12) :
                LET w == SubSeq(justDigits, i, i + 12)
                IN  /\ SubSeq(w, 1, 3) \in {<<"9", "7", "8">>, <<"9", "7", "9">>}
                    /\ Rule13(w))
        => result # Null

\* C20 witness: on the fully mangled "9 7 B O 1 3 4 6 B 5 9 9 1" the first
\* five strategies found nothing and the fallback returned 9780134685991.
C20_Witness ==
    /\ phase = "done"
    /\ text = LineSpaced
    /\ tried = 1..NumStrategies
    /\ result = Seed13

\* ------------------------------------------------------------------------
\* The API order of lookupBook (checked under SpecLookup)
\* ------------------------------------------------------------------------

\* The positions of the console entries of kind ev.
LogAt(ev) == {n \in 1..Len(log) : log[n].ev = ev}

\* C16 as stated: the APIs are queried one at a time in searchOrder order;
\* the call stops at the first API whose search returns found = true: no
\* later API is queried and that book is displayed and saved; an API whose
\* search throws counts as not found; 'No book found' is set only after
\* every API was tried without success.
C16_Original ==
    /\ \A n \in LogAt("Trying") :
           log[n].api = searchOrder[Cardinality({m \in LogAt("Trying") : m <= n})]
    /\ \A n \in LogAt("Found in") :
           /\ \A m \in LogAt("Trying") : m < n
           /\ lookup = "returned"
           /\ displayed = log[n].api
           /\ history = log[n].api
           /\ status = [kind |-> "Book found via", api |-> log[n].api]
    /\ status.kind = "No book found" =>
           /\ Cardinality(LogAt("Trying")) = Len(searchOrder)
           /\ LogAt("Found in") = {}

\* ------------------------------------------------------------------------
\* Strategy 5 and the patterns that never validate (checked under Spec)
\* ------------------------------------------------------------------------

\* The least element of a non-empty set of numbers.
Least(S) == CHOOSE p \in S : \A q \in S : p <= q

\* Strategy 5 by its rule: in the digits of t, in text order, the leftmost
\* 13-character window with a book prefix passing the ISBN-13 rule; if
\* there is none anywhere, the leftmost 10-character window passing the
\* ISBN-10 rule; else null.
Strategy5Rule(t) ==
    LET d == KeepClass(t, Digits)
        w13 == {i \in 1..(Len(d) - 12) :
                   /\ SubSeq(d, i, i + 2) \in {<<"9", "7", "8">>, <<"9", "7", "9">>}
                   /\ Rule13(SubSeq(d, i, i + 12))}
        w10 == {i \in 1..(Len(d) - 9) : Rule10(SubSeq(d, i, i + 9))}
    IN  IF w13 # {} THEN SubSeq(d, Least(w13), Least(w13) + 12)
        ELSE IF w10 # {} THEN SubSeq(d, Least(w10), Least(w10) + 9)
        ELSE Null

\* C21: strategy 5 joins the maximal digit runs of the original text in order
\* and returns the leftmost valid 978/979 13-character window if there is
\* one, and only otherwise the leftmost valid 10-character window; a call
\* that returns from strategy 5 returns that value.
C21_Concatenation ==
    phase = "done" =>
        /\ Strategy5(text) = Strategy5Rule(text)
        /\ (5 \in tried /\ 6 \notin tried) => result = Strategy5Rule(text)

\* C21 witness: the call returned the 13-character window from strategy 5
\* although a valid 10-character window stands further left in the joined
\* digits.
C21_Witness ==
    /\ phase = "done"
    /\ tried = 1..5
    /\ text = LineTenThenThirteen
    /\ result = Seed13
    /\ Rule10(SubSeq(KeepClass(text, Digits), 1, 10))

\* C30: every match of the first strategy-2 pattern captures exactly 12
\* digits and every match of the first strategy-4 pattern exactly 9
\* characters, so none passes the length test and neither pattern yields
\* the returned value.
C30_PatternsNeverValidate ==
    phase = "done" =>
        /\ \A m \in Range(matchAll(normalized, isbn13Patterns[1], FALSE)) :
               /\ Len(KeepClass(m.cap, Digits)) = 12
               /\ Isbn13Candidate(m) = Null
        /\ \A m \in Range(matchAll(toUpperCase(text), isbn10Patterns[1], TRUE)) :
               /\ Len(KeepClass(toUpperCase(m.cap), DigitOrX)) = 9
               /\ Isbn10Candidate(m) = Null

\* C30 witness: both patterns matched in the text, strategies 2 and 4 found
\* nothing, and strategy 5 returned.
C30_Witness ==
    /\ phase = "done"
    /\ tried = 1..5
    /\ result # Null
    /\ matchAll(normalized, isbn13Patterns[1], FALSE) # <<>>
    /\ matchAll(toUpperCase(text), isbn10Patterns[1], TRUE) # <<>>

\* ------------------------------------------------------------------------
\* Single-character errors (checked under SpecValidate)
\* ------------------------------------------------------------------------

\* s with its i-th character replaced by c.
Replaced(s, i, c) == [s EXCEPT ![i] = c]

\* The positions of s that hold no whitespace and no hyphen, and the one of
\* them that holds the tenth such character.
Significant(s) == {i \in 1..Len(s) : s[i] \notin WS \cup {"-"}}

IsTenth(s, i) == i \in Significant(s) /\ Cardinality({j \in Significant(s) : j < i}) = 9

\* C22 as stated: in every string validateISBN13 accepts, replacing any one
\* character by a different digit gives a string it rejects; in every string
\* isValidISBN10 accepts, replacing any one character by a different digit,
\* or the tenth ISBN character by a different member of 0-9/X, gives a
\* string it rejects.
C22_Original ==
    /\ (fn = "validateISBN13" /\ ret) =>
           \A i \in 1..Len(code) : \A d \in Digits \ {code[i]} :
               ~validateISBN13(Replaced(code, i, d))
    /\ (fn = "isValidISBN10" /\ ret) =>
           \A i \in 1..Len(code) :
               \A d \in (IF IsTenth(code, i) THEN Digits \cup {"X"} ELSE Digits) \ {code[i]} :
                   ~isValidISBN10(Replaced(code, i, d))

\* C22 amended: validateISBN13 reads the first 13 characters only, so a
\* replacement by a different digit is detected exactly when it is among
\* them; for isValidISBN10 every replacement by a different digit, and of
\* the tenth ISBN character by a member of 0-9/X other than the character
\* in either case (x and X are the same check character), is detected.
C22_SingleErrors ==
    /\ (fn = "validateISBN13" /\ ret) =>
           \A i \in 1..Len(code) : \A d \in Digits \ {code[i]} :
               validateISBN13(Replaced(code, i, d)) <=> i > 13
    /\ (fn = "isValidISBN10" /\ ret) =>
           \A i \in 1..Len(code) :
               \A d \in (IF IsTenth(code, i) THEN Digits \cup {"X"} ELSE Digits)
                            \ {code[i], UpperChar(code[i])} :
                   ~isValidISBN10(Replaced(code, i, d))

\* C22 witness: validateISBN13 accepted a string of 14 characters.
C22_Witness == fn = "validateISBN13" /\ ret = TRUE /\ Len(code) = 14

\* ------------------------------------------------------------------------
\* Properties of the scanner (checked under SpecScanner)
\* ------------------------------------------------------------------------

\* The string has no hyphen and no whitespace character.
Stripped(s) == \A i \in 1..Len(s) : s[i] \notin WS \cup {"-"}

\* C23 as stated: every ISBN passed to lookupBook, by whichever handler, has
\* no hyphen and no whitespace.  Violated on the barcode path, which hands
\* result.codeResult.code to lookupBook as decoded.
C23_Original == path # "none" => Stripped(isbn)

\* C25: a lookup is started by a detection only when scanCooldown is false,
\* isScanning is true and the code passes isValidISBN, and that step sets the
\* cooldown and its timeout; the cooldown is set by no other step and reset
\* only by the timeout, of which one is pending exactly while the cooldown is
\* set, so no second lookup starts before the timeout has fired.
C25_Cooldown ==
    [][/\ (Len(log') > Len(log) /\ path' = "barcode") =>
            /\ ~scanCooldown /\ isScanning /\ isValidISBN(isbn')
            /\ scanCooldown' /\ timers' = timers + 1
            /\ lastScannedISBN' = isbn'
       /\ (scanCooldown' /\ ~scanCooldown) =>
            /\ Len(log') = Len(log) + 1 /\ path' = "barcode"
            /\ isScanning /\ isValidISBN(isbn')
       /\ (scanCooldown /\ ~scanCooldown') => timers' = timers - 1
       /\ scanCooldown => (Len(log') = Len(log) /\ isbn' = isbn)
       /\ (scanCooldown <=> timers = 1) /\ timers \in {0, 1}
       /\ (scanCooldown' <=> timers' = 1) /\ timers' \in {0, 1}]_vars

\* A second lookup has been started by a detection, after the timeout of the
\* first has fired, and its own cooldown is running.
C25_Witness ==
    /\ path = "barcode" /\ Len(log) = 2 /\ scanCooldown /\ timers = 1
    /\ isbn = Seed979

\* C26 as stated: Quagga scanning and a direct camera stream are never active
\* together, and when nothing is pending whatever is active is what
\* currentMode asks for.  Violated when setMode('text') runs while the
\* callback of Quagga.init is still to come.
C26_Original ==
    /\ ~(isScanning /\ stream)
    /\ (inits = 0 /\ cameras = 0) =>
           /\ isScanning => currentMode = "barcode"
           /\ stream => currentMode = "text"

\* ------------------------------------------------------------------------
\* Properties of manual entry (checked under SpecManual)
\* ------------------------------------------------------------------------

\* C28: a run of manualSearch starts a lookup exactly when the field value
\* without whitespace and hyphens is non-empty and passes isValidISBN, and
\* then hands that stripped value to lookupBook; otherwise it sets the
\* 'Please enter an ISBN' or the 'Invalid ISBN format' status and calls
\* nothing; every value that passes isValidISBN10 passes isValidISBN.  (In
\* this specification the steps that leave the field alone are the runs of
\* manualSearch.)
C28_ManualSearch ==
    [][/\ isValidISBN10(code') => isValidISBN(code')
       /\ code' = code =>
            LET s == RemoveClass(code, WS \cup {"-"})
                started == Len(log') = Len(log) + 1
            IN  /\ started <=> (s # <<>> /\ isValidISBN(s))
                /\ started => (isbn' = s /\ path' = "manual" /\ lookup' = "awaiting")
                /\ ~started => UNCHANGED <<path, isbn, lookup, log>>
                /\ s = <<>> => status'.kind = "Please enter an ISBN"
                /\ (s # <<>> /\ ~isValidISBN(s)) => status'.kind = "Invalid ISBN format"]_vars

\* A hyphenated ISBN-10 was typed and searched: the lookup got it stripped.
C28_Witness ==
    /\ path = "manual" /\ lookup = "awaiting"
    /\ code = SeedHyphenated10X /\ isbn = Seed10X

\* ------------------------------------------------------------------------
\* Properties of text capture (checked under SpecOCR)
\* ------------------------------------------------------------------------

\* C29 as stated: Tesseract.createWorker is called at most once.  Violated by
\* a second capture made while the first awaits the worker.
C29_Original == created <= 1

\* ------------------------------------------------------------------------
\* Properties of the scan history (checked under SpecHistory)
\* ------------------------------------------------------------------------

\* C27: the stored history never has more than 20 entries nor two entries of
\* one ISBN, the ISBN saved last is its first entry, and saving an ISBN that
\* is already stored leaves the length as it was.
C27_History ==
    /\ [](/\ Len(isbnHistory) <= HistoryLimit
          /\ \A j, k \in 1..Len(isbnHistory) : isbnHistory[j] = isbnHistory[k] => j = k
          /\ saved # Null => (isbnHistory # <<>> /\ isbnHistory[1] = saved))
    /\ [][(isbnHistory' # isbnHistory
             /\ \E j \in 1..Len(isbnHistory) : isbnHistory[j] = saved') =>
           Len(isbnHistory') = Len(isbnHistory)]_vars

\* A full history took a new ISBN, which pushed the oldest entry out, and
\* then an ISBN from its middle, which moved to the front.
C27_Witness ==
    /\ Len(isbnHistory) = HistoryLimit
    /\ saved = Book(HistoryLimit \div 2)
    /\ isbnHistory[2] = Book(HistoryLimit + 1)
    /\ \A j \in 1..Len(isbnHistory) : isbnHistory[j] # Book(1)

\* ------------------------------------------------------------------------
\* Properties of the API configuration (checked under SpecConfig)
\* ------------------------------------------------------------------------

====
